---- MODULE Spec2Model ----
(***************************************************************************)
(* HDF5ChunkedWriterProcessor (src/mflow_processor/h5_chunked_writer.py):  *)
(* the chunked frame-to-container writer.  The writer object's fields, the *)
(* files of the storage backend and a record of the last call are the      *)
(* state; process_message, stop and start are the operations.              *)
(***************************************************************************)
EXTENDS Integers, Sequences, FiniteSets, TLC

\* ------------------------------------------------------------------ bounds
MaxFrameIndex == 3      \* frame indices are drawn from 0..MaxFrameIndex
MaxSubmits == 3         \* process_message calls in one behaviour
MaxFailures == 1        \* write_direct_chunk calls that raise in one behaviour
MaxGrow == 2            \* expand_dataset allocates slot + 1..MaxGrow slots
MaxFramesPerFile == 4   \* frames_per_file of the sequential scenario: 1..MaxFramesPerFile
MaxSeqLen == 10         \* frames of the sequential scenario: 0..N-1, N <= MaxSeqLen

\* The initial number of slots create_dataset allocates (utils/h5_utils.py).
InitialSize == 1

\* frames_per_file of the general run: 0 models None (both are falsy).
FramesPerFileValues == {0, 2}

FrameIndices == 0..MaxFrameIndex
\* The index set of the reordering scenario (spec.md section 8 uses
\* [0, 5, 3, 9]): every ordering of every subset is submitted.
PermIndices == {0, 3, 5, 9}

\* Python's None is the empty tuple, a value v is <<v>>.
None == <<>>
Some(v) == <<v>>
Val(o) == o[1]

Max(S) == CHOOSE x \in S : \A y \in S : y <= x
Min(S) == CHOOSE x \in S : \A y \in S : x <= y

\* Every frame index a behaviour may submit.
AllIndices == FrameIndices \cup PermIndices \cup 0..(MaxSeqLen - 1)
\* The value of {chunk_number} in the file name: 0 without chunking, else
\* the frame's chunk, at most index + 1.
FileNames == 0..(Max(AllIndices) + 1)

VARIABLES
    file,                  \* self._file: None or the handle of the open file
    dataset,               \* self._dataset: None or the handle of the dataset
    max_frame_index,       \* self._max_frame_index
    current_frame_chunk,   \* self._current_frame_chunk
    current_dataset_size,  \* self._current_dataset_size
    frames_per_file,       \* self.frames_per_file (0: not set)
    dataset_name,          \* self.dataset_name is set
    output_file,           \* self.output_file is set
    plugins,               \* self._plugins: the plugin functions, in order
    disk,                  \* the backend: file name -> the file's content
    last,                  \* what the last call did (observation)
    hist,                  \* counters and ground truth over the behaviour
    pending,               \* the frames still to submit, or the message in flight
    rest                   \* the REST request handled last, and its response

vars == <<file, dataset, max_frame_index, current_frame_chunk, current_dataset_size,
          frames_per_file, dataset_name, output_file, plugins, disk, last, hist,
          pending, rest>>

\* ---------------------------------------------------------------- backend
\* A file that was never created.
NoFile == [exists |-> FALSE, open |-> FALSE, chunk |-> 0, size |-> 0,
           slots |-> <<>>, low |-> 0, high |-> 0,
           ncompact |-> 0, nattrs |-> 0, npopulate |-> 0, nclose |-> 0,
           closed_max |-> 0, failed |-> FALSE, reordered |-> FALSE,
           fpf_open |-> 0]

\* The writer, the backend and the observations as one value the methods
\* take and return.
World == [file |-> file, dataset |-> dataset, max_frame_index |-> max_frame_index,
          current_frame_chunk |-> current_frame_chunk,
          current_dataset_size |-> current_dataset_size,
          frames_per_file |-> frames_per_file,
          dataset_name |-> dataset_name, output_file |-> output_file,
          plugins |-> plugins,
          disk |-> disk, last |-> last, hist |-> hist, rest |-> rest]

Apply(W) ==
    /\ file' = W.file
    /\ dataset' = W.dataset
    /\ max_frame_index' = W.max_frame_index
    /\ current_frame_chunk' = W.current_frame_chunk
    /\ current_dataset_size' = W.current_dataset_size
    /\ frames_per_file' = W.frames_per_file
    /\ dataset_name' = W.dataset_name
    /\ output_file' = W.output_file
    /\ plugins' = W.plugins
    /\ disk' = W.disk
    /\ last' = W.last
    /\ hist' = W.hist
    /\ rest' = W.rest

\* An exception leaves the method: the rest of the call is skipped.
Raise(W, what) == [W EXCEPT !.last.raised = what]
Raised(W) == W.last.raised # "no"

\* h5py.File(filename, "w"): creates the file, truncating an existing one.
h5py_File(W, filename) ==
    [W EXCEPT !.file = Some(filename),
              !.disk[filename] = [NoFile EXCEPT !.exists = TRUE, !.open = TRUE,
                                                !.fpf_open = W.frames_per_file],
              !.hist.opened = @ + 1,
              !.hist.truncated = @ \/ W.disk[filename].exists,
              !.hist.open_at_create = @ \cup {f \in FileNames : W.disk[f].open},
              !.last.created = TRUE]

\* create_dataset: the dataset of InitialSize slots of one frame each.
create_dataset(W, filename, frame_chunk) ==
    [W EXCEPT !.dataset = Some(filename),
              !.disk[filename].size = InitialSize,
              !.disk[filename].chunk = frame_chunk]

\* expand_dataset(dataset, frame_index): resizes the dataset so that
\* frame_index fits, over-allocating by grow - 1 slots; returns the new size.
expand_dataset(frame_index, grow) == frame_index + grow

\* compact_dataset(dataset, max_frame_index): resizes to max_frame_index + 1.
compact_dataset(max_index) == max_index + 1

\* dataset.resize(size, axis=0): slots beyond the new size are dropped.
resize(d, size) ==
    [d EXCEPT !.size = size,
              !.slots = [s \in {t \in DOMAIN d.slots : t < size} |-> d.slots[s]]]

\* ----------------------------------------------------------------- writer
\* Mutant: the first frame of the chunk after the one being closed.
min_frame_in_dataset_next_chunk(W) ==
    IF W.frames_per_file # 0
    THEN Val(W.current_frame_chunk) * W.frames_per_file
    ELSE 0

\* min_frame_in_dataset of _set_data_chunk_attributes.
min_frame_in_dataset(W) ==
    IF W.frames_per_file # 0
    THEN (Val(W.current_frame_chunk) - 1) * W.frames_per_file
    ELSE 0

\* _set_data_chunk_attributes: image_nr_low and image_nr_high of the open file.
set_data_chunk_attributes(W) ==
    LET lo == min_frame_in_dataset(W)
        hi == W.max_frame_index + lo
    IN  [W EXCEPT !.disk[Val(W.file)].low = lo + 1,
                  !.disk[Val(W.file)].high = hi + 1,
                  !.disk[Val(W.file)].nattrs = @ + 1]

\* Mutant: _max_frame_index is not reset when the file is closed.
close_file_no_reset(W) ==
    IF W.file = None \/ W.dataset = None \/ ~W.disk[Val(W.dataset)].open
    THEN Raise(W, "close")
    ELSE
    LET d  == Val(W.dataset)
        W1 == [W EXCEPT !.disk[d] = [resize(@, compact_dataset(W.max_frame_index))
                                        EXCEPT !.ncompact = @ + 1,
                                               !.closed_max = W.max_frame_index]]
        W2 == set_data_chunk_attributes(W1)
        W3 == [W2 EXCEPT !.disk[Val(W.file)].npopulate = @ + 1]
    IN  [W3 EXCEPT !.disk[Val(W.file)].open = FALSE,
                   !.disk[Val(W.file)].nclose = @ + 1,
                   !.file = None,
                   !.current_frame_chunk = None,
                   !.hist.closed = @ + 1,
                   !.last.closed = @ + 1]

\* Mutant: _max_frame_index is reset before the dataset is compacted and the
\* attributes are written.
close_file_reset_first(W) ==
    IF W.file = None \/ W.dataset = None \/ ~W.disk[Val(W.dataset)].open
    THEN Raise(W, "close")
    ELSE
    LET d  == Val(W.dataset)
        W0 == [W EXCEPT !.max_frame_index = 0]
        W1 == [W0 EXCEPT !.disk[d] = [resize(@, compact_dataset(W0.max_frame_index))
                                        EXCEPT !.ncompact = @ + 1,
                                               !.closed_max = W0.max_frame_index]]
        W2 == set_data_chunk_attributes(W1)
        W3 == [W2 EXCEPT !.disk[Val(W.file)].npopulate = @ + 1]
    IN  [W3 EXCEPT !.disk[Val(W.file)].open = FALSE,
                   !.disk[Val(W.file)].nclose = @ + 1,
                   !.file = None,
                   !.current_frame_chunk = None,
                   !.hist.closed = @ + 1,
                   !.last.closed = @ + 1]

\* Mutant: the file is dropped without self._file.close().
close_file_left_open(W) ==
    [W EXCEPT !.disk[Val(W.dataset)] =
                  [resize(@, compact_dataset(W.max_frame_index))
                      EXCEPT !.ncompact = @ + 1, !.nattrs = @ + 1,
                             !.npopulate = @ + 1,
                             !.closed_max = W.max_frame_index],
              !.file = None,
              !.current_frame_chunk = None,
              !.max_frame_index = 0,
              !.hist.closed = @ + 1,
              !.last.closed = @ + 1]

\* _close_file: compact, write the attributes and the configured metadata,
\* close, and reset the writer's fields.  Called without an open dataset the
\* first backend call raises.
close_file(W) ==
    IF W.file = None \/ W.dataset = None \/ ~W.disk[Val(W.dataset)].open
    THEN Raise(W, "close")
    ELSE
    LET d  == Val(W.dataset)
        W1 == [W EXCEPT !.disk[d] = [resize(@, compact_dataset(W.max_frame_index))
                                        EXCEPT !.ncompact = @ + 1,
                                               !.closed_max = W.max_frame_index]]
        W2 == set_data_chunk_attributes(W1)
        W3 == [W2 EXCEPT !.disk[Val(W.file)].npopulate = @ + 1]
    IN  [W3 EXCEPT !.disk[Val(W.file)].open = FALSE,
                   !.disk[Val(W.file)].nclose = @ + 1,
                   !.file = None,
                   !.current_frame_chunk = None,
                   !.max_frame_index = 0,
                   !.hist.closed = @ + 1,
                   !.last.closed = @ + 1]

\* "self._current_dataset_size = self._dataset.shape[0]" and
\* "self._current_frame_chunk = frame_chunk", the last lines of _create_file.
record_new_file(W, frame_chunk) ==
    [W EXCEPT !.current_dataset_size = W.disk[frame_chunk].size,
              !.current_frame_chunk = Some(frame_chunk)]

\* _create_file once no file is open: the file of frame_chunk and its
\* dataset.  Without output_file, self.output_file.format raises before a
\* file is created; without dataset_name the file is already created when
\* create_dataset is called and raises.
create_new_file(W, frame_chunk) ==
    IF Raised(W) THEN W
    ELSE IF ~W.output_file THEN Raise(W, "AttributeError")
    ELSE IF ~W.dataset_name
         THEN Raise(h5py_File(W, frame_chunk), "create_dataset")
    ELSE record_new_file(create_dataset(h5py_File(W, frame_chunk),
                                        frame_chunk, frame_chunk),
                         frame_chunk)

\* Mutant: the open file is replaced without being closed.
create_file_no_close(W, frame_chunk) == create_new_file(W, frame_chunk)

\* Mutant: the size of the new dataset is not recorded.
create_file_stale_size(W, frame_chunk) ==
    [create_new_file(IF W.file # None THEN close_file(W) ELSE W, frame_chunk)
        EXCEPT !.current_dataset_size = W.current_dataset_size]

\* _create_file: close the open file, if any, then create the file of
\* frame_chunk and its dataset.
create_file(W, frame_chunk) ==
    create_new_file(IF W.file # None THEN close_file(W) ELSE W, frame_chunk)

\* Mutant: chunks numbered from 0.
frame_chunk_of_zero_based(fpf, frame_index) == frame_index \div fpf

\* The chunk routing of _prepare_storage_for_frame (// is floor division).
frame_chunk_of(fpf, frame_index) == (frame_index \div fpf) + 1

relative_index(fpf, frame_index) ==
    IF fpf # 0
    THEN frame_index - (frame_chunk_of(fpf, frame_index) - 1) * fpf
    ELSE frame_index

\* Mutant: a frame at index size is taken to fit.
needs_expand_off_by_one(rel, size) == rel > size

\* Mutant: the dataset is resized for every frame.
needs_expand_always(rel, size) == TRUE

\* "if not frame_index < self._current_dataset_size"
needs_expand(rel, size) == ~(rel < size)

\* Mutant: the index of the last frame, not the highest one.
track_max_frame_index_last(rel, max_index) == rel

\* "if frame_index > self._max_frame_index: self._max_frame_index = frame_index"
track_max_frame_index(rel, max_index) == IF rel > max_index THEN rel ELSE max_index

\* The first half of _prepare_storage_for_frame: with chunking, a new file
\* when the frame's chunk is not the current one; without, a new file when
\* none is open.
open_file_for_frame(W, frame_index) ==
    IF W.frames_per_file # 0
    THEN IF W.current_frame_chunk # Some(frame_chunk_of(W.frames_per_file, frame_index))
         THEN create_file(W, frame_chunk_of(W.frames_per_file, frame_index))
         ELSE W
    ELSE IF W.file = None THEN create_file(W, 0) ELSE W

\* "self._current_dataset_size = expand_dataset(self._dataset, frame_index)"
\* when the frame does not fit.
expand_for_frame(W, rel, grow) ==
    IF needs_expand(rel, W.current_dataset_size)
    THEN [W EXCEPT !.current_dataset_size = expand_dataset(rel, grow),
                   !.disk[Val(W.dataset)] = resize(@, expand_dataset(rel, grow)),
                   !.last.expanded = TRUE]
    ELSE W

\* The second half of _prepare_storage_for_frame: expand the dataset when
\* the frame does not fit, track the highest index.  A writer whose last
\* _create_file raised has no dataset or a closed one.
fit_frame(W, rel, grow) ==
    IF Raised(W) THEN W
    ELSE IF W.dataset = None THEN Raise(W, "AttributeError")
    ELSE IF needs_expand(rel, W.current_dataset_size)
            /\ ~W.disk[Val(W.dataset)].open
         THEN Raise(W, "expand")
    ELSE [expand_for_frame(W, rel, grow)
             EXCEPT !.max_frame_index = track_max_frame_index(rel, @),
                    !.last.rel = rel]

\* _prepare_storage_for_frame: open the file of the frame's chunk, expand
\* the dataset when the frame does not fit, track the highest index.
\* The relative index it returns is last.rel.
prepare_storage_for_frame(W, frame_index, grow) ==
    fit_frame(open_file_for_frame(W, frame_index),
              relative_index(W.frames_per_file, frame_index), grow)

\* self._dataset.id.write_direct_chunk((relative_frame_index, 0, 0), bytes):
\* stores the payload at the slot; raises when the backend fails (ok is
\* FALSE), when the dataset is closed or when the slot is outside it.
write_direct_chunk(W, slot, payload, ok) ==
    LET d  == Val(W.dataset)
        W1 == [W EXCEPT !.last.wrote = TRUE,
                        !.last.size_at_write = W.disk[d].size,
                        !.last.open_at_write = W.disk[d].open,
                        !.last.chunk_at_write = W.disk[d].chunk,
                        !.last.tracked_size = W.current_dataset_size]
    IN  IF ok /\ W.disk[d].open /\ slot >= 0 /\ slot < W.disk[d].size
        THEN [W1 EXCEPT !.disk[d].slots =
                            [s \in DOMAIN @ \cup {slot} |->
                                IF s = slot THEN payload ELSE @[s]],
                        !.disk[d].reordered =
                            @ \/ \E s \in DOMAIN W.disk[d].slots : s > slot]
        ELSE [Raise(W1, "write") EXCEPT !.disk[d].failed = TRUE,
                                         !.hist.nfail = @ + 1]

\* The record of a call that has just begun.
NewCall(W, op, frame_index) ==
    [W EXCEPT !.last = [op |-> op, raised |-> "no", frame_index |-> frame_index,
                        rel |-> 0, created |-> FALSE, closed |-> 0,
                        expanded |-> FALSE, wrote |-> FALSE, size_at_write |-> 0,
                        tracked_size |-> 0,
                        open_at_write |-> FALSE, chunk_at_write |-> 0,
                        called |-> <<>>, raiser |-> 0,
                        open_before |-> IF W.file = None THEN None
                                        ELSE Some(W.disk[Val(W.file)].chunk)]]

\* Mutant: the plugins are called last to first.
run_plugins_reversed(W, frame_index, payload, raiser) ==
    [W EXCEPT !.last.called =
                  [k \in 1..Len(W.plugins) |->
                      <<W.plugins[Len(W.plugins) + 1 - k], frame_index, TRUE>>]]

\* "for plugin_function in self._plugins: plugin_function(self, message)":
\* the plugins are called in order, each with the writer and the message;
\* last.called lists who was called, with which frame, and whether the
\* frame's bytes were in the dataset then.  The plugin at position raiser
\* (0: none) raises, which ends the loop and the call.
run_plugins(W, frame_index, payload, raiser) ==
    LET n == IF raiser \in 1..Len(W.plugins) THEN raiser ELSE Len(W.plugins)
        d == W.disk[Val(W.dataset)]
        written == W.last.rel \in DOMAIN d.slots /\ d.slots[W.last.rel] = payload
        W1 == [W EXCEPT !.last.called =
                            [k \in 1..n |-> <<W.plugins[k], frame_index, written>>]]
    IN  IF raiser \in 1..Len(W.plugins)
        THEN [Raise(W1, "plugin") EXCEPT !.last.raiser = raiser]
        ELSE W1

\* The end of process_message, after the write: the plugins are called
\* when the write did not raise.
after_write(W, frame_index, payload, raiser) ==
    IF Raised(W) THEN W
    ELSE run_plugins([W EXCEPT !.hist.latest =
                                 [i \in DOMAIN @ |->
                                     IF i = frame_index THEN @[i] + 1 ELSE @[i]]],
                     frame_index, payload, raiser)

\* Mutant: the plugins are called before the write, which a raising plugin
\* prevents.
write_frame_plugins_first(W, frame_index, payload, ok, raiser) ==
    IF Raised(W) THEN W
    ELSE IF raiser \in 1..Len(W.plugins)
         THEN run_plugins(W, frame_index, payload, raiser)
    ELSE after_write(write_direct_chunk(W, W.last.rel, payload, ok),
                     frame_index, payload, raiser)

\* process_message after _prepare_storage_for_frame: the write at the
\* relative index, then the plugins.
write_frame(W, frame_index, payload, ok, raiser) ==
    IF Raised(W) THEN W
    ELSE after_write(write_direct_chunk(W, W.last.rel, payload, ok),
                     frame_index, payload, raiser)

\* process_message: prepare the storage, write the frame's bytes directly
\* at the relative index, then call the plugins.
process_message(W, frame_index, payload, grow, ok, raiser) ==
    write_frame(prepare_storage_for_frame(
                    [NewCall(W, "process_message", frame_index)
                        EXCEPT !.hist.nsubmit = @ + 1],
                    frame_index, grow),
                frame_index, payload, ok, raiser)

\* The stops that closed a file are counted.
count_stop(W) == IF Raised(W) THEN W ELSE [W EXCEPT !.hist.nstop = @ + 1]

\* Mutant: stop closes without asking whether a file is open.
stop_always_close(W) == count_stop(close_file(NewCall(W, "stop", 0)))

\* stop: close the open file, if any.
stop(W) ==
    IF W.file # None
    THEN count_stop(close_file(NewCall(W, "stop", 0)))
    ELSE NewCall(W, "stop", 0)

\* _validate_parameters, called by start: ValueError when a needed
\* parameter is missing.
validate_parameters(W) ==
    IF ~W.dataset_name \/ ~W.output_file THEN Raise(W, "ValueError") ELSE W

\* Mutant: start opens the first file.
start_opens_file(W) == create_file(validate_parameters(NewCall(W, "start", 0)), 0)

\* start: validates the parameters and nothing else.
start(W) == validate_parameters(NewCall(W, "start", 0))

\* ---------------------------------------------------------- specification
InitLast == [op |-> "init", raised |-> "no", frame_index |-> 0,
             rel |-> 0, created |-> FALSE, closed |-> 0,
             expanded |-> FALSE, wrote |-> FALSE, size_at_write |-> 0,
             tracked_size |-> 0,
             open_at_write |-> FALSE, chunk_at_write |-> 0,
             called |-> <<>>, raiser |-> 0, open_before |-> None]

InitHist == [opened |-> 0, closed |-> 0, truncated |-> FALSE, open_at_create |-> {},
             nsubmit |-> 0, nfail |-> 0, nstop |-> 0,
             latest |-> [i \in AllIndices |-> 0]]

\* No REST request was handled yet.
InitRest == [op |-> "none", body |-> <<>>, trace |-> <<>>, exception |-> "none",
             status |-> 0, reply |-> "none", message |-> "none"]

\* The private fields after __init__, and no file on disk.
InitFields ==
    /\ rest = InitRest
    /\ file = None
    /\ dataset = None
    /\ max_frame_index = 0
    /\ current_frame_chunk = None
    /\ current_dataset_size = 0
    /\ disk = [f \in FileNames |-> NoFile]
    /\ last = InitLast
    /\ hist = InitHist

\* The writer after __init__ and after the node's parameters were applied,
\* without plugins.
InitWriter ==
    /\ InitFields
    /\ dataset_name = TRUE
    /\ output_file = TRUE
    /\ plugins = <<>>

Init ==
    /\ InitWriter
    /\ frames_per_file \in FramesPerFileValues
    /\ pending = <<>>

\* The bytes of a message: the frame's index and how many messages carried
\* that index so far, so that any two messages differ.
Payload(frame_index) == <<frame_index, hist.latest[frame_index] + 1>>

\* A frame arrives: any index, the write may fail.
ProcessMessage ==
    /\ hist.nsubmit < MaxSubmits
    /\ \E frame_index \in FrameIndices, grow \in 1..MaxGrow, ok \in BOOLEAN :
          /\ ok \/ hist.nfail < MaxFailures
          /\ Apply(process_message(World, frame_index, Payload(frame_index), grow, ok, 0))
    /\ UNCHANGED pending

Stop ==
    /\ Apply(stop(World))
    /\ UNCHANGED pending

Next == ProcessMessage \/ Stop

Spec == Init /\ [][Next]_vars

\* ------------------------------------------------------ scripted scenarios
\* The frames of pending are submitted in order, every write succeeds, and
\* stop is called once after the last one.
RECURSIVE Orderings(_)
Orderings(S) ==
    IF S = {} THEN {<<>>}
    ELSE UNION {{<<x>> \o t : t \in Orderings(S \ {x})} : x \in S}

SubmitPending ==
    /\ pending # <<>>
    /\ \E grow \in 1..MaxGrow :
          Apply(process_message(World, Head(pending), Payload(Head(pending)), grow, TRUE, 0))
    /\ pending' = Tail(pending)

StopPending ==
    /\ pending = <<>>
    /\ last.op # "stop"
    /\ Apply(stop(World))
    /\ UNCHANGED pending

NextScenario == SubmitPending \/ StopPending

\* Chunking disabled: every ordering of every subset of PermIndices.
InitPerm ==
    /\ InitWriter
    /\ frames_per_file = 0
    /\ pending \in UNION {Orderings(S) : S \in SUBSET PermIndices}

SpecPerm == InitPerm /\ [][NextScenario]_vars

\* Chunking enabled: the frames 0..N-1 in increasing order.
InitSeq ==
    /\ InitWriter
    /\ frames_per_file \in 1..MaxFramesPerFile
    /\ pending \in {[i \in 1..n |-> i - 1] : n \in 0..MaxSeqLen}

SpecSeq == InitSeq /\ [][NextScenario]_vars

\* ------------------------------------------------------------------ claims
\* The routing of spec.md section 4.1, for non-negative indices.
RoutedChunk(fpf, frame_index) == IF fpf = 0 THEN 0 ELSE 1 + (frame_index \div fpf)
RoutedSlot(fpf, frame_index) == IF fpf = 0 THEN frame_index ELSE frame_index % fpf

\* How often the file was compacted, given its image_nr attributes, given
\* the configured metadata, and closed.
Finalizations(f) == <<disk[f].ncompact, disk[f].nattrs, disk[f].npopulate, disk[f].nclose>>

\* The last call was a process_message whose frame is routed to another
\* chunk than the one of the container that was open when it began.
Rollover ==
    /\ last.op = "process_message"
    /\ last.open_before # None
    /\ Val(last.open_before) # RoutedChunk(frames_per_file, last.frame_index)

\* C1: a process_message whose frame is routed to another chunk than the
\* open container's closes that container exactly once (one compaction, one
\* write of image_nr_low/high, one write of the configured metadata, one
\* close) before the new file is created; no container is closed twice, and
\* none is replaced while open: every file but the writer's is closed and
\* finalized once, and as many containers were closed as were opened and are
\* not open now.
C1_RolloverClosesOnce ==
    /\ hist.open_at_create = {}
    /\ hist.closed = hist.opened - (IF file = None THEN 0 ELSE 1)
    /\ \A f \in FileNames : disk[f].exists =>
          IF disk[f].open
          THEN file = Some(f) /\ Finalizations(f) = <<0, 0, 0, 0>>
          ELSE Finalizations(f) = <<1, 1, 1, 1>>
    /\ Rollover => last.closed = 1 /\ last.created
    /\ (last.op = "process_message" /\ last.open_before # None /\ ~Rollover)
          => last.closed = 0 /\ ~last.created
    /\ last.closed <= 1

C1_Witness ==
    /\ Rollover
    /\ last.closed = 1
    /\ hist.closed >= 2
    /\ file # None

\* C2: while a container is open and holds at least one frame,
\* 0 <= _max_frame_index < _current_dataset_size.
C2_MaxBelowCapacity ==
    (file # None /\ DOMAIN disk[Val(file)].slots # {})
        => 0 <= max_frame_index /\ max_frame_index < current_dataset_size

\* A container that was grown, after a rollover and after a stop.
C2_Witness ==
    /\ file # None
    /\ DOMAIN disk[Val(file)].slots # {}
    /\ last.expanded
    /\ max_frame_index >= 1
    /\ hist.nstop >= 1
    /\ hist.closed >= 2

\* C3: when write_direct_chunk is called the dataset written to is open, it
\* is the one of the frame's routed chunk, and the relative index passed is
\* below the tracked capacity and below the dataset's size, expanded or not;
\* every process_message reaches the write.
C3_WriteWithinCapacity ==
    last.op = "process_message" =>
        /\ last.wrote
        /\ last.open_at_write
        /\ last.chunk_at_write = RoutedChunk(frames_per_file, last.frame_index)
        /\ last.rel = RoutedSlot(frames_per_file, last.frame_index)
        /\ last.rel < last.tracked_size
        /\ last.rel < last.size_at_write

\* A write that needed the dataset to grow, in a container opened by a rollover.
C3_Witness ==
    /\ last.op = "process_message"
    /\ last.wrote
    /\ last.expanded
    /\ last.closed = 1
    /\ last.raised = "no"

\* C4: every closed container records image_nr_low = (chunk - 1) *
\* frames_per_file + 1 (1 without chunking) and image_nr_high = image_nr_low
\* + the _max_frame_index it was closed with, chunk being the chunk the
\* container was created for; when no write to it failed that index is the
\* highest slot written to it (0 when nothing was).
C4_RecordedAttributes ==
    \A f \in FileNames : (disk[f].exists /\ ~disk[f].open) =>
        /\ disk[f].low = (IF frames_per_file = 0 THEN 1
                          ELSE (disk[f].chunk - 1) * frames_per_file + 1)
        /\ disk[f].high = disk[f].low + disk[f].closed_max
        /\ ~disk[f].failed => disk[f].closed_max = Max({0} \cup DOMAIN disk[f].slots)

\* A container of a later chunk closed by a rollover, with a slot above 0.
C4_Witness ==
    \E f \in FileNames :
        /\ disk[f].exists /\ ~disk[f].open
        /\ disk[f].chunk >= 2
        /\ disk[f].closed_max >= 1
        /\ Rollover

\* The slots of file f that hold a frame, and the global index of a slot.
Written(f) == DOMAIN disk[f].slots
GlobalIndex(f, slot) ==
    IF frames_per_file = 0 THEN slot ELSE (disk[f].chunk - 1) * frames_per_file + slot
Closed(f) == disk[f].exists /\ ~disk[f].open

\* C5: every closed container that holds at least one frame was compacted to
\* the highest slot written to it plus one.
C5_CompactedToHighestWritten ==
    \A f \in FileNames : (Closed(f) /\ Written(f) # {}) =>
        disk[f].size = Max(Written(f)) + 1

\* C6: for every closed container that holds at least one frame,
\* image_nr_low - 1 is the smallest and image_nr_high - 1 the largest global
\* frame index written to it.
C6_RangePresent ==
    \A f \in FileNames : (Closed(f) /\ Written(f) # {}) =>
        /\ disk[f].low - 1 = GlobalIndex(f, Min(Written(f)))
        /\ disk[f].high - 1 = GlobalIndex(f, Max(Written(f)))

\* The frame indices submitted successfully so far.
Submitted == {i \in AllIndices : hist.latest[i] > 0}

ScenarioDone == pending = <<>> /\ last.op = "stop"

\* C7: chunking disabled, the frames of a set submitted in any order and
\* then stop: the closed container holds exactly the set, image_nr_low is 1,
\* image_nr_high and the compacted size are the set's highest index + 1,
\* whatever the order was.
C7_OrderIndependent ==
    (ScenarioDone /\ Submitted # {}) =>
        /\ Closed(0)
        /\ Written(0) = Submitted
        /\ disk[0].low = 1
        /\ disk[0].high = Max(Submitted) + 1
        /\ disk[0].size = Max(Submitted) + 1

\* The four indices of PermIndices submitted out of order: low 1, high 10, size 10.
C7_Witness ==
    /\ ScenarioDone
    /\ Submitted = PermIndices
    /\ disk[0].reordered
    /\ disk[0].low = 1 /\ disk[0].high = 10 /\ disk[0].size = 10

\* ceil(n / c)
CeilDiv(n, c) == (n + c - 1) \div c

\* C8: frames_per_file = C > 0, the frames 0..N-1 in increasing order and
\* then stop: exactly the containers 1..ceil(N/C) exist, each was opened and
\* finalized once, container k records image_nr_low = (k-1)*C + 1 and
\* image_nr_high = min(k*C, N) and is compacted to the frames it holds (the
\* last one to N - (k-1)*C).
C8_SequentialSplit ==
    (ScenarioDone /\ hist.nsubmit >= 1) =>
        LET N == hist.nsubmit
            C == frames_per_file
            K == CeilDiv(N, C)
        IN  /\ {f \in FileNames : disk[f].exists} = 1..K
            /\ hist.opened = K /\ hist.closed = K
            /\ \A k \in 1..K :
                  /\ Closed(k)
                  /\ Finalizations(k) = <<1, 1, 1, 1>>
                  /\ disk[k].chunk = k
                  /\ disk[k].low = (k - 1) * C + 1
                  /\ disk[k].high = Min({k * C, N})
                  /\ disk[k].size = Min({k * C, N}) - (k - 1) * C
                  /\ Written(k) = 0..(disk[k].size - 1)

\* C = 4 and N = 10: (1,4), (5,8), (9,10), the last container of 2 slots.
C8_Witness ==
    /\ ScenarioDone
    /\ frames_per_file = 4
    /\ hist.nsubmit = 10
    /\ <<disk[1].low, disk[1].high>> = <<1, 4>>
    /\ <<disk[2].low, disk[2].high>> = <<5, 8>>
    /\ <<disk[3].low, disk[3].high, disk[3].size>> = <<9, 10, 2>>

\* Frame i is in the container of its chunk, at its slot, with the bytes of
\* the most recent message that carried index i.
Present(i) ==
    LET f == RoutedChunk(frames_per_file, i)
        slot == RoutedSlot(frames_per_file, i)
    IN  /\ disk[f].exists
        /\ slot \in Written(f)
        /\ disk[f].slots[slot] = <<i, hist.latest[i]>>

\* Every process_message so far succeeded and stop has just closed the
\* container, for the first time.
SubmitsThenStop == last.op = "stop" /\ hist.nfail = 0 /\ hist.nstop = 1

\* C9 as claimed: after successful submits in any order and stop, every
\* submitted index is present with its latest bytes.
C9_AllSubmittedPresent ==
    SubmitsThenStop => \A i \in Submitted : Present(i)

\* C9 as amended: the same, provided no file was created over an existing
\* one (no frame was routed to a chunk whose container had been closed).
C9_PresentUnlessTruncated ==
    (SubmitsThenStop /\ ~hist.truncated) => \A i \in Submitted : Present(i)

\* An index submitted twice and frames out of order in one container.
C9_Witness ==
    /\ SubmitsThenStop
    /\ ~hist.truncated
    /\ \E i \in Submitted : hist.latest[i] = 2
    /\ \E f \in FileNames : disk[f].reordered

\* C10: a stop that finds a container open finalizes it once and leaves the
\* writer without a file; a stop that finds none changes nothing of the
\* writer and the backend, calls no backend operation and does not raise.
C10_StopIdempotent ==
    [][last'.op = "stop" =>
        IF file # None
        THEN LET f == Val(file)
             IN  /\ file' = None
                 /\ current_frame_chunk' = None
                 /\ last'.raised = "no"
                 /\ last'.closed = 1
                 /\ hist'.closed = hist.closed + 1
                 /\ hist'.opened = hist.opened
                 /\ ~disk'[f].open
                 /\ <<disk'[f].ncompact, disk'[f].nattrs,
                      disk'[f].npopulate, disk'[f].nclose>> = <<1, 1, 1, 1>>
                 /\ \A g \in FileNames \ {f} : disk'[g] = disk[g]
        ELSE /\ UNCHANGED <<file, dataset, max_frame_index, current_frame_chunk,
                            current_dataset_size, frames_per_file, dataset_name,
                            output_file, disk, hist>>
             /\ last'.raised = "no"
             /\ last'.closed = 0]_vars

\* A stop of the idle writer, after an earlier stop closed a container.
C10_Witness ==
    /\ last.op = "stop"
    /\ last.closed = 0
    /\ last.raised = "no"
    /\ hist.nstop >= 1
    /\ file = None

\* C11: a container that is closed with no frame written to it was closed
\* with a high-water mark of -1, its close did not raise, its dataset was not
\* shrunk below the initial allocation, and its image_nr attributes denote an
\* empty range (high below low), not a range that contains a frame.
C11_EmptyContainerFinalized ==
    /\ last.op = "stop" => last.raised = "no"
    /\ \A f \in FileNames : (Closed(f) /\ Written(f) = {}) =>
          /\ disk[f].closed_max = -1
          /\ disk[f].size >= InitialSize
          /\ disk[f].high < disk[f].low

\* C12: a process_message whose write_direct_chunk raises leaves the
\* high-water mark as it was: unchanged in the container that was open, and
\* that of an empty container in one the call created.
C12_MaxOnlyAfterWrite ==
    [][(last'.op = "process_message" /\ last'.raised = "write") =>
          IF last'.created
          THEN max_frame_index' <= 0
          ELSE max_frame_index' = max_frame_index]_vars

\* ------------------------------------------------ negative frame indices
\* The frame index comes from the message header; nothing in the writer
\* restricts it to the naturals.
NegativeIndices == {-2, -1}

\* A frame with a negative index arrives.
ProcessNegative ==
    /\ hist.nsubmit < MaxSubmits
    /\ \E frame_index \in NegativeIndices, grow \in 1..MaxGrow :
          Apply(process_message(World, frame_index, <<frame_index, 1>>, grow, TRUE, 0))
    /\ UNCHANGED pending

NextNeg == ProcessMessage \/ ProcessNegative \/ Stop

SpecNeg == Init /\ [][NextNeg]_vars

\* C13: a process_message with a negative frame index raises and leaves the
\* file, the dataset, the current chunk, the capacity, the high-water mark
\* and every file on disk as they were.
C13_NegativeIndexFailsFast ==
    [][(last'.op = "process_message" /\ last'.frame_index < 0) =>
          /\ last'.raised # "no"
          /\ UNCHANGED <<file, dataset, max_frame_index, current_frame_chunk,
                         current_dataset_size, disk>>]_vars

\* ------------------------------------------------ missing configuration
\* The writer as constructed: dataset_name and output_file are None until
\* the node sets them, and nothing orders start, process_message and stop.
InitConfig ==
    /\ InitFields
    /\ dataset_name \in BOOLEAN
    /\ output_file \in BOOLEAN
    /\ plugins = <<>>
    /\ frames_per_file \in FramesPerFileValues
    /\ pending = <<>>

Start ==
    /\ Apply(start(World))
    /\ UNCHANGED pending

NextConfig == Start \/ ProcessMessage \/ Stop

SpecConfig == InitConfig /\ [][NextConfig]_vars

\* C14: while dataset_name or output_file is unset, start raises ValueError
\* and changes nothing, and no file has ever been created.
C14_NoFileWithoutConfiguration ==
    (~dataset_name \/ ~output_file) =>
        /\ hist.opened = 0
        /\ \A f \in FileNames : ~disk[f].exists
        /\ file = None
        /\ last.op = "start" => last.raised = "ValueError"

\* ------------------------------------------- configuration while running
\* frames_per_file is a public attribute of the writer, which the REST
\* interface's set_parameter assigns at any time; here between two frames,
\* while a file is open.
SetFramesPerFile ==
    /\ file # None
    /\ last.op = "process_message"
    /\ \E value \in FramesPerFileValues \ {frames_per_file} :
          Apply([NewCall(World, "set_parameter", 0)
                    EXCEPT !.frames_per_file = value])
    /\ UNCHANGED pending

NextReconfig == ProcessMessage \/ SetFramesPerFile \/ Stop

SpecReconfig == Init /\ [][NextReconfig]_vars

\* C15: a container is routed and labelled by the frames_per_file in force
\* when it was opened: image_nr_low of every closed container is the first
\* frame number of its chunk under that value, and a frame written to the
\* container that was already open is routed to it, and to its slot, under
\* that value.
C15_OpenContainerKeepsConfiguration ==
    /\ \A f \in FileNames : Closed(f) =>
          disk[f].low = (IF disk[f].fpf_open = 0 THEN 0
                         ELSE (disk[f].chunk - 1) * disk[f].fpf_open) + 1
    /\ (last.op = "process_message" /\ last.raised = "no" /\ ~last.created) =>
          /\ disk[Val(file)].chunk =
                 RoutedChunk(disk[Val(file)].fpf_open, last.frame_index)
          /\ last.rel = RoutedSlot(disk[Val(file)].fpf_open, last.frame_index)

\* ---------------------------------------------------------------- plugins
MaxPlugins == 2
MaxHookSubmits == 2

\* The plugin lists the constructor may be given: distinct functions, named
\* by numbers, in any order.
PluginLists == UNION {Orderings(S) : S \in SUBSET (1..MaxPlugins)}

InitPlugins ==
    /\ InitFields
    /\ dataset_name = TRUE
    /\ output_file = TRUE
    /\ plugins \in PluginLists
    /\ frames_per_file \in FramesPerFileValues
    /\ pending = <<>>

\* The first and the last frame index.
HookFrames == {0, MaxFrameIndex}

\* A frame arrives: the write may fail, and so may any one plugin.
ProcessWithPlugins ==
    /\ hist.nsubmit < MaxHookSubmits
    /\ \E frame_index \in HookFrames, ok \in BOOLEAN, raiser \in 0..Len(plugins) :
          /\ ok \/ hist.nfail < MaxFailures
          /\ Apply(process_message(World, frame_index, Payload(frame_index),
                                   MaxGrow, ok, raiser))
    /\ UNCHANGED pending

NextPlugins == ProcessWithPlugins \/ Stop

SpecPlugins == InitPlugins /\ [][NextPlugins]_vars

\* The write of the last process_message did not raise.
WriteCompleted == last.raised \in {"no", "plugin"}

\* The record of plugin k called with the frame after its bytes were written.
CalledAfterWrite(k) == <<plugins[k], last.frame_index, TRUE>>

\* C16 as claimed: every process_message whose write completed called every
\* plugin once, in registration order, after the write; one whose write
\* failed called none.
C16_EveryHookOnce ==
    last.op = "process_message" =>
        IF WriteCompleted
        THEN last.called = [k \in 1..Len(plugins) |-> CalledAfterWrite(k)]
        ELSE last.called = <<>>

\* C16, amended: the plugins called by a process_message are a prefix of the
\* registered ones, each called once, in registration order, with the frame,
\* after its bytes were written; the prefix is empty when the call raised
\* before or in the write, complete when the call did not raise, and ends
\* with the plugin that raised otherwise.
C16_HooksInOrderUntilRaise ==
    last.op = "process_message" =>
        /\ Len(last.called) <= Len(plugins)
        /\ \A k \in 1..Len(last.called) : last.called[k] = CalledAfterWrite(k)
        /\ ~WriteCompleted => last.called = <<>>
        /\ last.raised = "no" => Len(last.called) = Len(plugins)
        /\ last.raised = "plugin" =>
              /\ last.raiser \in 1..Len(plugins)
              /\ Len(last.called) = last.raiser

\* Two plugins, registered in the order 2, 1, were both called.
C16_Witness ==
    /\ last.op = "process_message"
    /\ last.raised = "no"
    /\ plugins = <<2, 1>>
    /\ Len(last.called) = 2
    /\ hist.nsubmit = 2

\* C17: a process_message in which a plugin raises called the plugins up to
\* that one and no later one, and leaves the file, the dataset, the current
\* chunk, the capacity, the high-water mark and the files on disk exactly as
\* the same call does when no plugin raises.
C17_HookFailureKeepsWrite ==
    [][(last'.op = "process_message" /\ last'.raised = "plugin") =>
          /\ Len(last'.called) = last'.raiser
          /\ \E grow \in 1..MaxGrow :
                LET W == process_message(World, last'.frame_index,
                                         Payload(last'.frame_index), grow, TRUE, 0)
                IN  /\ W.last.raised = "no"
                    /\ file' = W.file
                    /\ dataset' = W.dataset
                    /\ max_frame_index' = W.max_frame_index
                    /\ current_frame_chunk' = W.current_frame_chunk
                    /\ current_dataset_size' = W.current_dataset_size
                    /\ disk' = W.disk
                    /\ hist'.latest = W.hist.latest]_vars

\* The first of two plugins raised, in a call that rolled over to a new file.
C17_Witness ==
    /\ last.op = "process_message"
    /\ last.raised = "plugin"
    /\ last.raiser = 1
    /\ Len(plugins) = 2
    /\ last.created
    /\ last.closed = 1

\* ---------------------------------------------------------------- routing
\* One or two frames of any index below MaxSeqLen, under every
\* frames_per_file up to MaxFramesPerFile, then stop.
InitRoute ==
    /\ InitWriter
    /\ frames_per_file \in 0..MaxFramesPerFile
    /\ pending \in {<<i>> : i \in 0..(MaxSeqLen - 1)}
                  \cup {<<i, j>> : i, j \in 0..(MaxSeqLen - 1)}

SpecRoute == InitRoute /\ [][NextScenario]_vars

\* C18: the frame of a process_message is written to the one chunk and slot
\* that its index and frames_per_file = C determine, whatever came before:
\* with C > 0 the slot is in 0..C-1 and (chunk - 1) * C + slot is the index,
\* chunks counted from 1; with C = 0 the chunk is 0 and the slot the index.
\* The open file is the one of that chunk and the writer records that chunk.
C18_RoutingTotalFunction ==
    (last.op = "process_message" /\ last.raised = "no") =>
        LET C == frames_per_file
            chunk == disk[Val(file)].chunk
        IN  /\ IF C > 0
               THEN /\ chunk >= 1
                    /\ 0 <= last.rel /\ last.rel < C
                    /\ (chunk - 1) * C + last.rel = last.frame_index
               ELSE /\ chunk = 0
                    /\ last.rel = last.frame_index
            /\ Val(file) = chunk
            /\ dataset = file
            /\ current_frame_chunk = Some(chunk)
            /\ last.chunk_at_write = chunk
            /\ last.rel \in DOMAIN disk[Val(file)].slots
            /\ disk[Val(file)].slots[last.rel][1] = last.frame_index

\* A second frame, routed to a slot after the first of a later chunk.
C18_Witness ==
    /\ last.op = "process_message"
    /\ last.raised = "no"
    /\ hist.nsubmit = 2
    /\ frames_per_file > 1
    /\ last.frame_index > frames_per_file
    /\ last.rel > 0
    /\ last.closed = 1

\* -------------------------------------------------- ownership and capacity
OpenFiles == {f \in FileNames : disk[f].open}

\* C19: at most one file is open; the writer holds a file exactly when one
\* is open and exactly when it records a current chunk, which is that
\* file's; after every process_message one file is open, after every stop
\* none; and no file was ever created while another one was open.
C19_SingleOpenContainer ==
    /\ Cardinality(OpenFiles) <= 1
    /\ OpenFiles = (IF file = None THEN {} ELSE {Val(file)})
    /\ (file = None) <=> (current_frame_chunk = None)
    /\ file # None => current_frame_chunk = Some(disk[Val(file)].chunk)
    /\ last.op = "process_message" => Cardinality(OpenFiles) = 1
    /\ last.op \in {"init", "stop"} => OpenFiles = {}
    /\ hist.open_at_create = {}

\* A call that closed one file and opened the next, after an earlier rollover.
C19_Witness ==
    /\ last.op = "process_message"
    /\ last.created
    /\ last.closed = 1
    /\ hist.opened = 3
    /\ Cardinality(OpenFiles) = 1

\* C20: a process_message that keeps the open file leaves the tracked size
\* as it was when the frame's slot is below it, and otherwise raises it
\* above the slot; the tracked size is the size of the dataset; and no
\* step makes the dataset of a file that stays open smaller.
C20_CapacityNeverShrinks ==
    [][/\ (last'.op = "process_message" /\ ~last'.created) =>
            /\ current_dataset_size' >= current_dataset_size
            /\ disk'[Val(file')].size = current_dataset_size'
            /\ IF last'.rel < current_dataset_size
               THEN current_dataset_size' = current_dataset_size /\ ~last'.expanded
               ELSE current_dataset_size' > last'.rel /\ last'.expanded
       /\ \A f \in FileNames :
            (disk[f].open /\ disk'[f].open) => disk'[f].size >= disk[f].size]_vars

\* A frame below the capacity, in a file that an earlier frame had expanded.
C20_Witness ==
    /\ last.op = "process_message"
    /\ ~last.created
    /\ ~last.expanded
    /\ last.open_before # None
    /\ current_dataset_size > InitialSize + 1
    /\ last.rel = 0

\* ------------------------------------------------------- lazy containers
MaxLazySubmits == 2

\* A frame arrives at the configured writer; the write may fail.
ProcessLazy ==
    /\ hist.nsubmit < MaxLazySubmits
    /\ \E frame_index \in HookFrames, ok \in BOOLEAN :
          /\ ok \/ hist.nfail < MaxFailures
          /\ Apply(process_message(World, frame_index, Payload(frame_index),
                                   MaxGrow, ok, 0))
    /\ UNCHANGED pending

NextLazy == Start \/ ProcessLazy \/ Stop

\* start, process_message and stop in any order; the REST server stops a
\* running processor when it is asked to and, at the latest, when it
\* terminates, so a stop that would close a file is eventually made.
SpecLazy == Init /\ [][NextLazy]_vars /\ WF_vars(Stop)

\* The frame is the first one of the idle writer, or belongs to another
\* chunk than the current one.
NeedsNewFile(frame_index) ==
    \/ file = None
    \/ /\ frames_per_file # 0
       /\ current_frame_chunk # Some(RoutedChunk(frames_per_file, frame_index))

\* The files that the frames of HookFrames are routed to.
LazyFiles == {RoutedChunk(fpf, i) : fpf \in FramesPerFileValues, i \in HookFrames}

\* start creates and truncates no file and leaves the writer and the files
\* as they are; a file is created only by a process_message, one per call,
\* and exactly when the frame needs a new file.
LazyCreation ==
    /\ last'.op = "start" =>
          /\ last'.raised = "no"
          /\ UNCHANGED <<file, dataset, max_frame_index, current_frame_chunk,
                         current_dataset_size, disk>>
          /\ hist'.opened = hist.opened
          /\ hist'.truncated = hist.truncated
    /\ hist'.opened # hist.opened =>
          /\ last'.op = "process_message"
          /\ hist'.opened = hist.opened + 1
    /\ last'.op = "process_message" =>
          (last'.created <=> NeedsNewFile(last'.frame_index))

MaxRaceSubmits == 2

\* The writer holds no lock: stop, called by the REST server's thread, may
\* run between the two halves of a process_message of the stream consumer.
\* pending holds the message whose storage was prepared and whose write is
\* still to come, with its local relative_frame_index.
PrepareFrame ==
    /\ pending = <<>>
    /\ hist.nsubmit < MaxRaceSubmits
    /\ \E frame_index \in HookFrames :
          LET W == prepare_storage_for_frame(
                       [NewCall(World, "process_message", frame_index)
                           EXCEPT !.hist.nsubmit = @ + 1],
                       frame_index, MaxGrow)
          IN  /\ Apply(W)
              /\ pending' = IF Raised(W) THEN <<>>
                            ELSE <<[frame_index |-> frame_index, rel |-> W.last.rel]>>

\* The second half: write_direct_chunk at the relative index computed by
\* the first half, then the plugins.
WriteFrame ==
    /\ pending # <<>>
    /\ Apply(write_frame([NewCall(World, "process_message", Head(pending).frame_index)
                             EXCEPT !.last.rel = Head(pending).rel],
                         Head(pending).frame_index,
                         Payload(Head(pending).frame_index), TRUE, 0))
    /\ pending' = <<>>

NextRace == PrepareFrame \/ WriteFrame \/ Stop

SpecRace == Init /\ [][NextRace]_vars

\* The write of the last process_message was attempted on a dataset whose
\* file a stop had closed.
WriteAfterClose ==
    /\ last.op = "process_message"
    /\ last.wrote
    /\ ~last.open_at_write

\* C22: whenever stop ran between the preparation and the write of a
\* process_message, so that the write is attempted on a closed file, the
\* frame's number is outside the range image_nr_low..image_nr_high recorded
\* in that file.
C22_RaceWriteOutsideRange ==
    WriteAfterClose =>
        LET f == Val(dataset)
        IN  ~(disk[f].low <= last.frame_index + 1
              /\ last.frame_index + 1 <= disk[f].high)

\* ----------------------------------------------------------- REST server
\* The parameters a request body may carry, by name.
ParameterNames == {"dataset_name", "output_file", "frames_per_file"}

\* The request bodies: None, or a JSON object with some of the parameters
\* in some order (its items are iterated in the order of the body).
Bodies == UNION {Orderings(S) : S \in SUBSET ParameterNames}

\* process.set_parameter((name, value)): the processor's attribute of that
\* name is assigned the value of the body.
set_parameter(W, name) ==
    IF name = "dataset_name" THEN [W EXCEPT !.dataset_name = TRUE]
    ELSE IF name = "output_file" THEN [W EXCEPT !.output_file = TRUE]
    ELSE [W EXCEPT !.frames_per_file = Max(FramesPerFileValues)]

\* A call of the handler on the processor is recorded in the trace.
Called(W, what) == [W EXCEPT !.rest.trace = Append(@, what)]

\* "for parameter in items: process.set_parameter(parameter)", from item k
\* on; the call for item raiser (0: none) raises and ends the loop.
RECURSIVE set_parameters(_, _, _, _)
set_parameters(W, items, k, raiser) ==
    IF k > Len(items) THEN W
    ELSE IF k = raiser
         THEN [Called(W, items[k]) EXCEPT !.rest.exception = "set_parameter"]
    ELSE set_parameters(set_parameter(Called(W, items[k]), items[k]),
                        items, k + 1, raiser)

\* A request arrives.
NewRequest(W, op, body) ==
    [W EXCEPT !.rest = [InitRest EXCEPT !.op = op, !.body = body]]

\* An exception of the processor leaves the handler.
Propagate(W) ==
    IF Raised(W) THEN [W EXCEPT !.rest.exception = W.last.raised] ELSE W

\* error_handler_500: the response is JSON, its HTTP status is rewritten to
\* 200, its body has status "error" and the exception's text.
error_handler_500(W) ==
    [W EXCEPT !.rest.status = 200,
              !.rest.reply = "error",
              !.rest.message = W.rest.exception]

\* The response: the handler's return value, or error_handler_500's after
\* an exception left the handler.
respond(W, message) ==
    IF W.rest.exception # "none" THEN error_handler_500(W)
    ELSE [W EXCEPT !.rest.status = 200,
                   !.rest.reply = "ok",
                   !.rest.message = message]

\* Mutant: process.start() is called although a parameter could not be set.
start_process_always(W) == Propagate(start(Called(W, "start")))

\* "process.start()" of the start handler, reached when setting the
\* parameters did not raise.
start_process(W) ==
    IF W.rest.exception # "none" THEN W
    ELSE Propagate(start(Called(W, "start")))

\* The start handler: "if request.json: _set_parameters(...)", then
\* process.start(), then "Process started.".
rest_start(W, body, raiser) ==
    respond(start_process(set_parameters(NewRequest(W, "start", body),
                                         body, 1, raiser)),
            "Process started.")

\* The stop handler: process.stop(), then "Process stopped.".
rest_stop(W) ==
    respond(Propagate(stop(Called(NewRequest(W, "stop", <<>>), "stop"))),
            "Process stopped.")

RestStart ==
    /\ \E body \in Bodies, raiser \in 0..Cardinality(ParameterNames) :
          /\ raiser <= Len(body)
          /\ Apply(rest_start(World, body, raiser))
    /\ UNCHANGED pending

RestStop ==
    /\ Apply(rest_stop(World))
    /\ UNCHANGED pending

NextRest == RestStart \/ RestStop

\* The REST server in front of the writer as constructed.
SpecRest == InitConfig /\ [][NextRest]_vars

\* C23: the start handler calls process.set_parameter for the parameters of
\* the body, in body order, and process.start() after the last of them; if
\* a set_parameter raises, no later parameter is set, process.start() is
\* not called, and the response is status 200 with a JSON body of status
\* "error"; "Process started." is answered only after process.start()
\* returned.
C23_ParametersBeforeStart ==
    rest.op = "start" =>
        LET n == Len(rest.body)
        IN  /\ \/ rest.trace = rest.body \o <<"start">>
               \/ /\ rest.exception = "set_parameter"
                  /\ Len(rest.trace) \in 1..n
                  /\ rest.trace = SubSeq(rest.body, 1, Len(rest.trace))
            /\ rest.exception = "set_parameter" =>
                  /\ \A k \in 1..Len(rest.trace) : rest.trace[k] # "start"
                  /\ rest.status = 200
                  /\ rest.reply = "error"
                  /\ rest.message # "Process started."
            /\ rest.message = "Process started." <=>
                  /\ rest.exception = "none"
                  /\ rest.reply = "ok"
                  /\ rest.trace = rest.body \o <<"start">>
                  /\ last.op = "start" /\ last.raised = "no"
            /\ rest.status = 200

\* The second of three parameters could not be set.
C23_Witness ==
    /\ rest.op = "start"
    /\ Len(rest.body) = 3
    /\ rest.exception = "set_parameter"
    /\ Len(rest.trace) = 2
    /\ rest.reply = "error"

====
